---- MODULE Spec2Model ----
(***************************************************************************)
(* Model of the antigravity-agent credential handling:                     *)
(*   - useAvailableModels.fetchData (src/src/modules/use-available-models) *)
(*     and the CloudCodeAPI calls it awaits (src/unnamed/part_000);        *)
(*   - the account switch operations and the backup codec, whose code      *)
(*     lives in src-tauri and is modelled from the written design.         *)
(*   - the CloudCodeAPI functions taken one call at a time, and the        *)
(*     ImportPasswordDialog component (src/unnamed/part_000).              *)
(***************************************************************************)
EXTENDS Integers, Sequences, FiniteSets, TLC

(* ------------------------------ bounds --------------------------------- *)
\* number of fetchData invocations that may be started (and overlap)
NInv == 2
\* number of capture/restore operations that may be started (and overlap)
NOps == 2
\* longest raw session blob, in bytes
MaxLen == 2
\* longest password, in characters
MaxPwLen == 2
\* most white-space characters typed into the import dialog's input
MaxBlanks == 4

Invocations == 1..NInv
Ops == 1..NOps

(* --------------------------- value universe ---------------------------- *)
Emails == {"alice", "bob"}
\* getCurrentAntigravityAccount() resolving to null: the host has no account
NoAccount == "none"
\* the value of a member that is absent from an object (JS undefined)
Undefined == "undefined"
Projects == {"p1"}
\* the model lists the listing endpoint can return for the account of e; a
\* list is told apart only by whose it is
ModelLists(e) == {<<"models", e>>}

\* a key that `data` does not have (use-available-models.ts:16, `data: {}`)
NoEntry == [entry |-> FALSE]
\* local variable declared `= null` (use-available-models.ts:18)
Null == [null |-> TRUE]
\* the value fetch()/response.json() throws on a transport failure: an Error
\* object, which has a message but no `error` member
NetworkException == [message |-> "network"]

\* bodies the session-initialisation endpoint can answer with
LoadCodeAssistBodies ==
    {[error |-> "UNAUTHENTICATED"], [currentTier |-> "free"]}
        \cup {[cloudaicompanionProject |-> p] : p \in Projects}
\* bodies the model-listing endpoint can answer with
FetchAvailableModelsBodies(e) ==
    {[error |-> "PERMISSION_DENIED"]}
        \cup {[models |-> m] : m \in ModelLists(e)}
\* bodies the OAuth token endpoint can answer with; t is the fresh token
RefreshAccessTokenBodies(t) ==
    {[error |-> "invalid_grant"], [access_token |-> t]}

\* `"error" in value`
HasError(value) == "error" \in DOMAIN value
\* value.member, undefined when the member is absent
Member(value, name) ==
    IF name \in DOMAIN value THEN value[name] ELSE Undefined

(* ---------------- CloudCodeAPI (src/unnamed/part_000) ------------------ *)
\* outcome of an awaited promise
Resolved(v) == [settled |-> "resolved", value |-> v]
Rejected(v) == [settled |-> "rejected", value |-> v]

\* post()/fetch(): the wire either delivers a JSON body or throws
Wire(bodies) == {Resolved(b) : b \in bodies} \cup {Rejected(NetworkException)}

\* variant of the common tail that hands an error body on as a response
ApiResult_ResolveErrorBody(wire) ==
    IF wire.settled = "rejected" THEN wire ELSE Resolved(wire.value)

\* the common tail of every CloudCodeAPI function:
\*   if ("error" in response) return Promise.reject(response); return response
ApiResult(wire) ==
    IF wire.settled = "rejected" THEN wire
    ELSE IF HasError(wire.value) THEN Rejected(wire.value)
    ELSE Resolved(wire.value)

loadCodeAssist(wire) == ApiResult(wire)
fetchAvailableModels(wire) == ApiResult(wire)
refreshAccessToken(wire) == ApiResult(wire)

\* one request sent by fetchData
Call(api, key, project) == [api |-> api, key |-> key, project |-> project]
\* nothing in flight
NoRequest == [api |-> "none"]

(* ------------------------------- state --------------------------------- *)
VARIABLES
    acct,                  \* email -> the in-memory AntigravityAccount object
    data,                  \* the zustand store's `data`: email -> models
    host,                  \* the host application's session state
    backup,                \* email -> persisted backup of the account
    issued,                \* number of access tokens the OAuth server issued
    pc,                    \* invocation -> the await fetchData is parked at
    arg,                   \* invocation -> its antigravityAccount (by email)
    codeAssistResponse,    \* invocation -> local of that name
    currentAccount,        \* invocation -> email of the local of that name
    refreshTokenResponse,  \* invocation -> local of that name
    request,               \* invocation -> the request it has in flight
    calls,                 \* invocation -> the calls it has made, in order
    settled,               \* invocation -> how those calls settled
    startAcct,             \* invocation -> the account as it was at the call
    switchLock,            \* the operation holding the switch-lock, or Free
    opPc,                  \* capture/restore operation -> its position
    opKind,                \* operation -> "capture" or "restore"
    opIdentity,            \* operation -> the identity it was called for
    staged,                \* operation -> the raw state it has read
    committed,             \* identity whose state the last restore wrote
    codecPc,               \* the backup file's life: "start", "file", "read"
    rawState,              \* the raw session blob being exported
    password,              \* the password it is exported with
    envelope,              \* the backup file's content
    producer,              \* what wrote the file: "encode" or "legacy"
    importPassword,        \* the password given to decode
    decoded,               \* what decode returned
    apiPc,                 \* a CloudCodeAPI call: "start", "settled", "tested"
    apiName,               \* the CloudCodeAPI function called
    apiWire,               \* what the wire delivered to it
    apiOutcome,            \* how the function's promise settled
    firstCallFailed,       \* the result of fetchData's test at line 27
    dialogPassword,        \* ImportPasswordDialog: state `password`
    showPassword,          \* ImportPasswordDialog: state of that name
    validationError,       \* ImportPasswordDialog: state of that name
    dialogEvent            \* the handler that ran last and what it called

fetchVars == <<acct, data, issued, pc, arg, codeAssistResponse, currentAccount,
               refreshTokenResponse, request, calls,
               settled, startAcct>>
hostVars == <<host, backup>>
switchVars == <<switchLock, opPc, opKind, opIdentity, staged, committed>>
codecVars == <<codecPc, rawState, password, envelope, producer,
               importPassword, decoded>>
apiVars == <<apiPc, apiName, apiWire, apiOutcome, firstCallFailed>>
dialogVars == <<dialogPassword, showPassword, validationError, dialogEvent>>
vars == <<fetchVars, hostVars, switchVars, codecVars, apiVars, dialogVars>>

\* the host's session blob of identity e: an auth part and a context part
RawState(e) == [auth |-> e, context |-> e]
\* no raw state: an identity the AccountStore does not know
NoState == RawState(NoAccount)
\* the switch-lock when nobody holds it
Free == 0

AccessToken0(e) == IF e = "alice" THEN 1 ELSE 2
IdToken0(e) == IF e = "alice" THEN 21 ELSE 22
\* the n-th access token handed out by the OAuth server
GrantedToken(n) == 100 + n

Account0(e) ==
    [auth |-> [access_token |-> AccessToken0(e), id_token |-> IdToken0(e)],
     context |-> [email |-> e]]

InitFetch ==
    /\ acct = [e \in Emails |-> Account0(e)]
    /\ data = [e \in Emails |-> NoEntry]
    /\ issued = 0
    /\ pc = [i \in Invocations |-> "idle"]
    /\ arg = [i \in Invocations |-> NoAccount]
    /\ codeAssistResponse = [i \in Invocations |-> Null]
    /\ currentAccount = [i \in Invocations |-> Undefined]
    /\ refreshTokenResponse = [i \in Invocations |-> Null]
    /\ calls = [i \in Invocations |-> <<>>]
    /\ request = [i \in Invocations |-> NoRequest]
    /\ settled = [i \in Invocations |-> <<>>]
    /\ startAcct = [i \in Invocations |-> Null]

InitHost ==
    /\ host \in {RawState(e) : e \in Emails}
    /\ backup = [e \in Emails |-> RawState(e)]

InitSwitch ==
    /\ switchLock = Free
    /\ opPc = [p \in Ops |-> "idle"]
    /\ opKind = [p \in Ops |-> "none"]
    /\ opIdentity = [p \in Ops |-> NoAccount]
    /\ staged = [p \in Ops |-> NoState]
    /\ committed = NoAccount

\* no backup file has been written and nothing has been decoded
NoEnvelope == [none |-> TRUE]
NoResult == [none |-> TRUE]

InitCodec ==
    /\ codecPc = "start"
    /\ rawState = <<>>
    /\ password = <<1>>
    /\ envelope = NoEnvelope
    /\ producer = "none"
    /\ importPassword = <<1>>
    /\ decoded = NoResult

\* no CloudCodeAPI call has been made on its own
NoWire == [settled |-> "none"]

InitApi ==
    /\ apiPc = "start"
    /\ apiName = "none"
    /\ apiWire = NoWire
    /\ apiOutcome = NoWire
    /\ firstCallFailed = FALSE

\* a typed password, as far as the dialog looks at it: how many of its
\* characters are white space and how many are not
TypedPassword(blanks, others) == [blanks |-> blanks, others |-> others]
\* the empty input, useState('')
EmptyPassword == TypedPassword(0, 0)

\* what a handler called: nothing, onSubmit(password) or onOpenChange(false)
NoCall == [prop |-> "none"]
OnSubmit(p) == [prop |-> "onSubmit", password |-> p]
OnOpenChange(open) == [prop |-> "onOpenChange", open |-> open]
Event(handler, call) == [handler |-> handler, call |-> call]

\* lines 180-182: the useState initial values
InitDialog ==
    /\ dialogPassword = EmptyPassword
    /\ showPassword = FALSE
    /\ validationError = ""
    /\ dialogEvent = Event("none", NoCall)

Init ==
    /\ InitFetch /\ InitHost /\ InitSwitch /\ InitCodec
    /\ InitApi /\ InitDialog

(* ----------------------------- fetchData ------------------------------- *)
\* AccountCommands.getCurrentAntigravityAccount()?.context.email
CurrentEmail == host.context

\* variant of the line-27 test that also refreshes when the response carries
\* no project id
FirstCallFailed_NoProject(value) ==
    HasError(value) \/ "cloudaicompanionProject" \notin DOMAIN value

\* line 27: the test that sends fetchData into the refresh branch
FirstCallFailed(value) == HasError(value)

\* line 31: the account is the one the host is using
IsCurrentAccount(account, currentEmail) ==
    account.context.email = currentEmail

\* variant of lines 35-37 that drops the stale token when the grant fails
AfterRefresh_ClearOnFailure(account, r) ==
    IF r.settled = "rejected"
    THEN [account EXCEPT !.auth.access_token = 0]
    ELSE [account EXCEPT !.auth.access_token = Member(r.value, "access_token")]

\* variant of lines 35-37 that stores the granted token as the id_token too
AfterRefresh_AlsoIdToken(account, r) ==
    IF r.settled = "rejected" THEN account
    ELSE [account EXCEPT !.auth.access_token = Member(r.value, "access_token"),
                         !.auth.id_token = Member(r.value, "access_token")]

\* lines 35-37: the account object after the refresh grant settled with r
AfterRefresh(account, r) ==
    IF r.settled = "rejected" THEN account
    ELSE [account EXCEPT !.auth.access_token = Member(r.value, "access_token")]

\* variant of line 40 that goes back to the refresh branch on a rejection
ReissueRejectedPc_Retry == "getCurrentAntigravityAccount"

\* line 40: where fetchData goes when the awaited session-init call rejects
ReissueRejectedPc == "rejected"

\* line 42: the model listing is requested whatever the response carries
ModelsRequest(account, response) ==
    Call("fetchAvailableModels", account.auth.access_token,
         Member(response, "cloudaicompanionProject"))

\* variant of lines 44-49 that leaves out the spread of the previous data
SetData_NoSpread(d, account, response) ==
    [e \in Emails |->
        IF e = account.context.email THEN response ELSE NoEntry]

\* lines 44-49: setState({data: {...getState().data, [email]: modelsResponse}})
SetData(d, account, response) ==
    [d EXCEPT ![account.context.email] = response]

\* variant of lines 42-49 that also stores what a failed listing gave
AfterModels_CacheRejection(d, account, r) == SetData(d, account, r.value)

\* lines 42-49: the cache after the model listing settled with r; a
\* rejection is thrown out of fetchData before setState is reached
AfterModels(d, account, r) ==
    IF r.settled = "rejected" THEN d ELSE SetData(d, account, r.value)

\* fetchData has settled: its locals are gone and nothing is in flight
DropFrame(i) ==
    /\ codeAssistResponse' = [codeAssistResponse EXCEPT ![i] = Null]
    /\ refreshTokenResponse' = [refreshTokenResponse EXCEPT ![i] = Null]
    /\ request' = [request EXCEPT ![i] = NoRequest]

\* invocation i sends a request
Send(i, call) ==
    /\ request' = [request EXCEPT ![i] = call]
    /\ calls' = [calls EXCEPT ![i] = Append(@, call.api)]

\* the request invocation i has in flight settled as r
Settle(i, r) == settled' = [settled EXCEPT ![i] = Append(@, r.settled)]

\* line 21: fetchData is called and sends the first session-init request;
\* invocations are numbered in the order they are called
FetchData(i, e) ==
    /\ pc[i] = "idle"
    /\ \A j \in Invocations : j < i => pc[j] # "idle"
    /\ arg' = [arg EXCEPT ![i] = e]
    /\ startAcct' = [startAcct EXCEPT ![i] = acct[e]]
    /\ Send(i, Call("loadCodeAssist", acct[e].auth.access_token, Undefined))
    /\ pc' = [pc EXCEPT ![i] = "loadCodeAssist1"]
    /\ UNCHANGED <<acct, data, issued, codeAssistResponse, settled,
                   currentAccount, refreshTokenResponse, hostVars,
                   switchVars, codecVars, apiVars, dialogVars>>

\* lines 20-40: the first session-init call settles; the try/catch stores the
\* response or the caught value, and the `"error" in` test picks the branch
LoadCodeAssist1Settled(i) ==
    /\ pc[i] = "loadCodeAssist1"
    /\ \E wire \in Wire(LoadCodeAssistBodies) :
        LET r == loadCodeAssist(wire)
            e == arg[i]
        IN  /\ Settle(i, r)
            /\ codeAssistResponse' = [codeAssistResponse EXCEPT ![i] = r.value]
            /\ IF FirstCallFailed(r.value)
               THEN /\ pc' = [pc EXCEPT ![i] = "getCurrentAntigravityAccount"]
                    /\ request' = [request EXCEPT ![i] = NoRequest]
                    /\ calls' = calls
               ELSE /\ pc' = [pc EXCEPT ![i] = "loadCodeAssist2"]
                    /\ Send(i, Call("loadCodeAssist",
                                    acct[e].auth.access_token, Undefined))
    /\ UNCHANGED <<acct, data, issued, arg, refreshTokenResponse,
                   currentAccount, startAcct, hostVars,
                   switchVars, codecVars, apiVars, dialogVars>>

\* line 30: the host command reads which account the host is using; its
\* reply is on its way to fetchData while the host goes on running
GetCurrentRead(i) ==
    /\ pc[i] = "getCurrentAntigravityAccount"
    /\ currentAccount' = [currentAccount EXCEPT ![i] = CurrentEmail]
    /\ pc' = [pc EXCEPT ![i] = "currentAccount"]
    /\ UNCHANGED <<acct, data, issued, arg, codeAssistResponse,
                   refreshTokenResponse, request, calls, settled, startAcct,
                   hostVars, switchVars, codecVars, apiVars, dialogVars>>

\* lines 30-35: the reply arrives; return for the account it names, otherwise
\* send the refresh grant with the account's id_token. currentAccount is
\* not read after line 31
GetCurrentSettled(i) ==
    /\ pc[i] = "currentAccount"
    /\ LET e == arg[i]
       IN  IF IsCurrentAccount(acct[e], currentAccount[i])
           THEN /\ pc' = [pc EXCEPT ![i] = "returned"]
                /\ DropFrame(i)
                /\ calls' = calls
           ELSE /\ pc' = [pc EXCEPT ![i] = "refreshAccessToken"]
                /\ Send(i, Call("refreshAccessToken", acct[e].auth.id_token,
                                Undefined))
                /\ UNCHANGED <<codeAssistResponse, refreshTokenResponse>>
    /\ currentAccount' = [currentAccount EXCEPT ![i] = Undefined]
    /\ UNCHANGED <<acct, data, issued, arg, settled, startAcct, hostVars,
                   switchVars, codecVars, apiVars, dialogVars>>

\* lines 35-40: the refresh grant settles; on success the access token is
\* overwritten in memory and the session-init call is re-issued with it
RefreshSettled(i) ==
    /\ pc[i] = "refreshAccessToken"
    /\ \E wire \in Wire(RefreshAccessTokenBodies(GrantedToken(issued + 1))) :
        LET r == refreshAccessToken(wire)
            e == arg[i]
        IN  /\ Settle(i, r)
            /\ acct' = [acct EXCEPT ![e] = AfterRefresh(@, r)]
            /\ IF r.settled = "rejected"
               THEN /\ pc' = [pc EXCEPT ![i] = "rejected"]
                    /\ DropFrame(i)
                    /\ UNCHANGED <<issued, calls>>
               ELSE /\ issued' = issued + 1
                    /\ refreshTokenResponse' =
                           [refreshTokenResponse EXCEPT ![i] = r.value]
                    /\ Send(i, Call("loadCodeAssist",
                                    acct'[e].auth.access_token, Undefined))
                    /\ pc' = [pc EXCEPT ![i] = "loadCodeAssist2"]
                    /\ UNCHANGED codeAssistResponse
    /\ UNCHANGED <<data, arg, currentAccount, startAcct, hostVars, switchVars,
                   apiVars, dialogVars,
                   codecVars>>

\* lines 40-42: the (re-)issued session-init call settles; a rejection ends
\* fetchData, a response is followed by the model-listing request
LoadCodeAssist2Settled(i) ==
    /\ pc[i] = "loadCodeAssist2"
    /\ \E wire \in Wire(LoadCodeAssistBodies) :
        LET r == loadCodeAssist(wire)
            e == arg[i]
        IN  /\ Settle(i, r)
            /\ IF r.settled = "rejected"
               THEN /\ pc' = [pc EXCEPT ![i] = ReissueRejectedPc]
                    /\ DropFrame(i)
                    /\ calls' = calls
               ELSE /\ codeAssistResponse' =
                           [codeAssistResponse EXCEPT ![i] = r.value]
                    /\ Send(i, ModelsRequest(acct[e], r.value))
                    /\ pc' = [pc EXCEPT ![i] = "fetchAvailableModels"]
                    /\ UNCHANGED refreshTokenResponse
    /\ UNCHANGED <<acct, data, issued, arg, currentAccount, startAcct,
                   hostVars, switchVars, codecVars, apiVars, dialogVars>>

\* lines 42-49: the model listing settles; a response is stored under the
\* account's email by setState and fetchData resolves
FetchAvailableModelsSettled(i) ==
    /\ pc[i] = "fetchAvailableModels"
    /\ \E wire \in Wire(FetchAvailableModelsBodies(arg[i])) :
        LET r == fetchAvailableModels(wire)
            e == arg[i]
        IN  /\ Settle(i, r)
            /\ data' = AfterModels(data, acct[e], r)
            /\ pc' = [pc EXCEPT ![i] =
                         IF r.settled = "rejected" THEN "rejected" ELSE "done"]
    /\ DropFrame(i)
    /\ UNCHANGED <<acct, issued, arg, calls, currentAccount, startAcct,
                   hostVars, switchVars, codecVars, apiVars, dialogVars>>

\* the host application changes its active account while fetchData is parked
HostSwitch(e) ==
    /\ host # RawState(e)
    /\ host' = RawState(e)
    /\ UNCHANGED <<fetchVars, backup,
                   switchVars, codecVars, apiVars, dialogVars>>

Next ==
    \/ \E i \in Invocations, e \in Emails : FetchData(i, e)
    \/ \E i \in Invocations : LoadCodeAssist1Settled(i)
    \/ \E i \in Invocations : GetCurrentRead(i)
    \/ \E i \in Invocations : GetCurrentSettled(i)
    \/ \E i \in Invocations : RefreshSettled(i)
    \/ \E i \in Invocations : LoadCodeAssist2Settled(i)
    \/ \E i \in Invocations : FetchAvailableModelsSettled(i)
    \/ \E e \in Emails : HostSwitch(e)

Spec == Init /\ [][Next]_vars

(* ------------- SwitchController (design sections 4.4, 5) -------------- *)
\* the switch-lock can be taken
CanAcquire_Always(lock) == TRUE

CanAcquire(lock) == lock = Free

\* HostStateBridge.write_state: the whole blob is written in one call
WriteState(old, new) == new

\* an operation is between taking and releasing the switch-lock
InSwitch(p) ==
    opPc[p] \in {"lookup", "validating", "writing", "written",
                 "reading", "persisting"}

\* restore(e)/capture() is called: take the switch-lock, or fail at once
\* with SwitchConflictError when it is held
BeginOp(p, kind, e) ==
    /\ opPc[p] = "idle"
    /\ \A q \in Ops : q < p => opPc[q] # "idle"
    /\ opKind' = [opKind EXCEPT ![p] = kind]
    /\ opIdentity' = [opIdentity EXCEPT ![p] = e]
    /\ IF CanAcquire(switchLock)
       THEN /\ switchLock' = p
            /\ opPc' = [opPc EXCEPT ![p] =
                           IF kind = "restore" THEN "lookup" ELSE "reading"]
       ELSE /\ switchLock' = switchLock
            /\ opPc' = [opPc EXCEPT ![p] = "conflict"]
    /\ UNCHANGED <<fetchVars, hostVars, codecVars, apiVars, dialogVars,
                   staged, committed>>

\* restore: look the account up; NotFoundError releases the lock
RestoreLookup(p) ==
    /\ opPc[p] = "lookup"
    /\ IF backup[opIdentity[p]] = NoState
       THEN /\ opPc' = [opPc EXCEPT ![p] = "notfound"]
            /\ switchLock' = Free
            /\ staged' = staged
       ELSE /\ opPc' = [opPc EXCEPT ![p] = "validating"]
            /\ switchLock' = switchLock
            /\ staged' = [staged EXCEPT ![p] = backup[opIdentity[p]]]
    /\ UNCHANGED <<fetchVars, hostVars, codecVars, apiVars, dialogVars,
                   opKind, opIdentity, committed>>

\* restore: ensure_valid_session succeeds, or fails and releases the lock
RestoreValidate(p) ==
    /\ opPc[p] = "validating"
    /\ \E ok \in BOOLEAN :
        IF ok
        THEN /\ opPc' = [opPc EXCEPT ![p] = "writing"]
             /\ switchLock' = switchLock
        ELSE /\ opPc' = [opPc EXCEPT ![p] = "failed"]
             /\ switchLock' = Free
    /\ UNCHANGED <<fetchVars, hostVars, codecVars, apiVars, dialogVars,
                   opKind, opIdentity, staged,
                   committed>>

\* restore: write the account's raw state to the host
RestoreWrite(p) ==
    /\ opPc[p] = "writing"
    /\ host' = WriteState(host, staged[p])
    /\ committed' = opIdentity[p]
    /\ opPc' = [opPc EXCEPT ![p] = "written"]
    /\ UNCHANGED <<fetchVars, codecVars, apiVars, dialogVars, backup,
                   switchLock, opKind, opIdentity, staged>>

\* capture: read the host's current raw state
CaptureRead(p) ==
    /\ opPc[p] = "reading"
    /\ staged' = [staged EXCEPT ![p] = host]
    /\ opPc' = [opPc EXCEPT ![p] = "persisting"]
    /\ UNCHANGED <<fetchVars, hostVars, codecVars, apiVars, dialogVars,
                   switchLock, opKind, opIdentity,
                   committed>>

\* capture: store the state read under the identity it belongs to
CapturePersist(p) ==
    /\ opPc[p] = "persisting"
    /\ backup' = [backup EXCEPT ![staged[p].context] = staged[p]]
    /\ opPc' = [opPc EXCEPT ![p] = "written"]
    /\ UNCHANGED <<fetchVars, codecVars, apiVars, dialogVars, host,
                   switchLock, opKind, opIdentity, staged,
                   committed>>

\* both: release the switch-lock
ReleaseOp(p) ==
    /\ opPc[p] = "written"
    /\ switchLock' = IF switchLock = p THEN Free ELSE switchLock
    /\ opPc' = [opPc EXCEPT ![p] = "done"]
    /\ UNCHANGED <<fetchVars, hostVars, codecVars, apiVars, dialogVars,
                   opKind, opIdentity, staged,
                   committed>>

\* some identities have no account in the store yet
InitSwitchHost ==
    /\ host \in {RawState(e) : e \in Emails}
    /\ backup \in [Emails -> {NoState} \cup {RawState(e) : e \in Emails}]
    /\ \A e \in Emails : backup[e] \in {NoState, RawState(e)}

InitSwitchSpec ==
    /\ InitFetch /\ InitSwitchHost /\ InitSwitch /\ InitCodec
    /\ InitApi /\ InitDialog

NextSwitch ==
    \/ \E p \in Ops, e \in Emails : BeginOp(p, "restore", e)
    \/ \E p \in Ops : BeginOp(p, "capture", NoAccount)
    \/ \E p \in Ops : RestoreLookup(p)
    \/ \E p \in Ops : RestoreValidate(p)
    \/ \E p \in Ops : RestoreWrite(p)
    \/ \E p \in Ops : CaptureRead(p)
    \/ \E p \in Ops : CapturePersist(p)
    \/ \E p \in Ops : ReleaseOp(p)

SpecSwitch == InitSwitchSpec /\ [][NextSwitch]_vars

(* ----------------- BackupCodec (design section 4.1) -------------------- *)
\* A byte is modelled on two bits, a key on the same two bits; the cipher,
\* the key derivation and the text encoding are small functions with the
\* shape of AES-256-GCM, PBKDF2-HMAC-SHA256 and Base64.
Bytes == 0..3
Salts == {0, 1}
Nonces == {0, 1}
Iterations == 210000

SeqsUpTo(S, lo, hi) == UNION {[1..n -> S] : n \in lo..hi}
Payloads == SeqsUpTo(Bytes, 0, MaxLen)
\* the characters passwords are typed from
PwChars == {1, 2}
Passwords == SeqsUpTo(PwChars, 1, MaxPwLen)

RECURSIVE SumSeq(_)
SumSeq(q) == IF q = <<>> THEN 0 ELSE Head(q) + SumSeq(Tail(q))

\* bitwise exclusive or of two bytes
Xor(a, b) ==
    (((a % 2) + (b % 2)) % 2) + 2 * (((a \div 2) + (b \div 2)) % 2)

\* PBKDF2-HMAC-SHA256(password, salt, iterations)
DeriveKey(pw, salt, iter) ==
    (SumSeq(pw) + 3 * Len(pw) + 2 * salt + iter) % 4

\* the cipher's key stream at position j
KeyStream(key, nonce, j) == (key + 2 * nonce + j) % 4
\* the authentication tag over the ciphertext
Tag(key, nonce, body) == (key + nonce + SumSeq(body) + Len(body)) % 4

\* AES-GCM seal: ciphertext with its authentication tag
Seal(key, nonce, plain) ==
    LET body == [j \in 1..Len(plain) |->
                    Xor(plain[j], KeyStream(key, nonce, j))]
    IN  [body |-> body, tag |-> Tag(key, nonce, body)]

Ok(bytes) == [ok |-> TRUE, raw_state |-> bytes]
Fail(name) == [ok |-> FALSE, error |-> name]

\* variant of the open that starts the key stream one position late
Open_KeyStreamShifted(key, nonce, ct) ==
    IF Tag(key, nonce, ct.body) # ct.tag THEN Fail("IntegrityError")
    ELSE Ok([j \in 1..Len(ct.body) |->
                Xor(ct.body[j], KeyStream(key, nonce, j + 1))])

\* AES-GCM open: the tag is checked first, then the body is decrypted
Open(key, nonce, ct) ==
    IF Tag(key, nonce, ct.body) # ct.tag THEN Fail("IntegrityError")
    ELSE Ok([j \in 1..Len(ct.body) |->
                Xor(ct.body[j], KeyStream(key, nonce, j))])

\* text encoding of bytes: each byte becomes its two binary digits
Base64Encode(bytes) ==
    [k \in 1..(2 * Len(bytes)) |->
        IF k % 2 = 1 THEN bytes[(k + 1) \div 2] \div 2
        ELSE bytes[k \div 2] % 2]
WellFormedText(text) == Len(text) % 2 = 0
\* every text a file without a header can hold, well-formed or not
Texts == SeqsUpTo({0, 1}, 0, 2 * MaxLen)
Base64Decode(text) ==
    [j \in 1..(Len(text) \div 2) |-> 2 * text[2 * j - 1] + text[2 * j]]

\* raw_state XOR repeat(password)
XorWithPassword(bytes, pw) ==
    [j \in 1..Len(bytes) |-> Xor(bytes[j], pw[((j - 1) % Len(pw)) + 1])]

\* encode(raw_state, password) with the salt and nonce it drew
encode(raw, pw, salt, nonce) ==
    [v |-> 2, kdf |-> "pbkdf2-sha256", iter |-> Iterations, salt |-> salt,
     nonce |-> nonce,
     ciphertext |-> Seal(DeriveKey(pw, salt, Iterations), nonce, raw)]

\* what the exporter wrote before the sealed format existed
LegacyEncode(raw, pw) == [text |-> Base64Encode(XorWithPassword(raw, pw))]

\* the legacy path of decode: Base64-decode, then XOR with the password
LegacyDecode(input, pw) ==
    IF "text" \in DOMAIN input /\ WellFormedText(input.text)
    THEN Ok(XorWithPassword(Base64Decode(input.text), pw))
    ELSE Fail("DecodeError")

\* variant of decode that falls back to the legacy path when the sealed open
\* fails, reading the ciphertext body as the legacy bytes
decode_FallbackOnFailure(input, pw) ==
    IF "v" \in DOMAIN input /\ input.v = 2
    THEN LET opened == Open(DeriveKey(pw, input.salt, input.iter),
                            input.nonce, input.ciphertext)
         IN  IF opened.ok THEN opened
             ELSE Ok(XorWithPassword(input.ciphertext.body, pw))
    ELSE LegacyDecode(input, pw)

\* decode(input, password): the version discriminator picks the path
decode(input, pw) ==
    IF "v" \in DOMAIN input
    THEN IF input.v = 2
         THEN Open(DeriveKey(pw, input.salt, input.iter), input.nonce,
                   input.ciphertext)
         ELSE Fail("DecodeError")
    ELSE LegacyDecode(input, pw)

\* the shape of a sealed envelope
IsSealed(input) ==
    /\ DOMAIN input = {"v", "kdf", "iter", "salt", "nonce", "ciphertext"}
    /\ input.v = 2

\* a raw state and a password are chosen for an export
ChooseInput(raw, pw) ==
    /\ codecPc = "start"
    /\ rawState' = raw
    /\ password' = pw
    /\ codecPc' = "chosen"
    /\ UNCHANGED <<fetchVars, hostVars, switchVars, apiVars, dialogVars,
                   envelope, producer,
                   importPassword, decoded>>

\* export: encode draws a fresh salt and nonce and seals the raw state
Export ==
    /\ codecPc = "chosen"
    /\ \E salt \in Salts, nonce \in Nonces :
          envelope' = encode(rawState, password, salt, nonce)
    /\ producer' = "encode"
    /\ codecPc' = "file"
    /\ UNCHANGED <<fetchVars, hostVars, switchVars, apiVars, dialogVars,
                   rawState, password,
                   importPassword, decoded>>

\* the file to import was written by a version that had only the XOR format
LegacyExport ==
    /\ codecPc = "chosen"
    /\ envelope' = LegacyEncode(rawState, password)
    /\ producer' = "legacy"
    /\ codecPc' = "file"
    /\ UNCHANGED <<fetchVars, hostVars, switchVars, apiVars, dialogVars,
                   rawState, password,
                   importPassword, decoded>>

\* the file to import has no header and was written by something else: any
\* text, well-formed or not
ForeignFile(text) ==
    /\ codecPc = "start"
    /\ envelope' = [text |-> text]
    /\ producer' = "foreign"
    /\ codecPc' = "file"
    /\ UNCHANGED <<fetchVars, hostVars, switchVars, apiVars, dialogVars,
                   rawState, password,
                   importPassword, decoded>>

\* import: decode the file with the password the user typed
Import(pw) ==
    /\ codecPc = "file"
    /\ importPassword' = pw
    /\ decoded' = decode(envelope, pw)
    /\ codecPc' = "read"
    /\ UNCHANGED <<fetchVars, hostVars, switchVars, apiVars, dialogVars,
                   rawState, password,
                   envelope, producer>>

NextCodec ==
    \/ \E raw \in Payloads, pw \in Passwords : ChooseInput(raw, pw)
    \/ Export
    \/ LegacyExport
    \/ \E text \in Texts : ForeignFile(text)
    \/ \E pw \in Passwords : Import(pw)

InitCodecSpec ==
    /\ InitFetch /\ InitSwitch /\ InitCodec
    /\ InitApi /\ InitDialog
    /\ host = RawState("alice")
    /\ backup = [e \in Emails |-> RawState(e)]

SpecCodec == InitCodecSpec /\ [][NextCodec]_vars

(* -------------- CloudCodeAPI functions, one call at a time -------------- *)
\* the members a response body of each function can carry besides `error`
Members(name) ==
    CASE name = "loadCodeAssist" -> {"cloudaicompanionProject", "currentTier"}
      [] name = "fetchAvailableModels" -> {"models"}
      [] name = "refreshAccessToken" -> {"access_token", "expires_in"}
      [] name = "userinfo" -> {"email", "id"}
ApiNames ==
    {"loadCodeAssist", "fetchAvailableModels", "refreshAccessToken",
     "userinfo"}
\* the values a member can have
MemberValues == {"a", "b"}
\* every JSON object over those members, with or without `error`
JsonBodies(name) ==
    UNION {[present -> MemberValues] :
              present \in SUBSET (Members(name) \cup {"error"})}

userinfo(wire) == ApiResult(wire)

\* the promise the named function returns for what the wire delivered
ApiCall(name, wire) ==
    CASE name = "loadCodeAssist" -> loadCodeAssist(wire)
      [] name = "fetchAvailableModels" -> fetchAvailableModels(wire)
      [] name = "refreshAccessToken" -> refreshAccessToken(wire)
      [] name = "userinfo" -> userinfo(wire)

\* a CloudCodeAPI function is called and its promise settles
CallApi(name, wire) ==
    /\ apiPc = "start"
    /\ apiName' = name
    /\ apiWire' = wire
    /\ apiOutcome' = ApiCall(name, wire)
    /\ apiPc' = "settled"
    /\ UNCHANGED <<fetchVars, hostVars, switchVars, codecVars, dialogVars,
                   firstCallFailed>>

\* use-available-models.ts lines 20-27: the try/catch keeps the response or
\* the caught value of the first loadCodeAssist, and line 27 tests it
TestFirstCall ==
    /\ apiPc = "settled"
    /\ apiName = "loadCodeAssist"
    /\ firstCallFailed' = FirstCallFailed(apiOutcome.value)
    /\ apiPc' = "tested"
    /\ UNCHANGED <<fetchVars, hostVars, switchVars, codecVars, dialogVars,
                   apiName, apiWire, apiOutcome>>

NextApi ==
    \/ \E name \in ApiNames : \E wire \in Wire(JsonBodies(name)) :
          CallApi(name, wire)
    \/ TestFirstCall

SpecApi == InitCodecSpec /\ [][NextApi]_vars

(* ------------- ImportPasswordDialog (src/unnamed/part_000) -------------- *)
\* validatePassword: the shortest and the longest password it lets through
MinPasswordLength == 4
MaxPasswordLength == 50

\* password.length
Length(p) == p.blanks + p.others
\* password.trim(): the white space at both ends goes; what is left is empty
\* exactly when the password had nothing but white space
TrimIsEmpty(p) == p.others = 0

\* what can be typed into the input: up to one character more than fits
TypedPasswords ==
    {TypedPassword(b, o) :
        b \in 0..MaxBlanks, o \in 0..(MaxPasswordLength + 1)}

\* lines 184-188, with the bounds compared the wrong way round at the edges
validatePassword_Exclusive(p) ==
    IF Length(p) <= MinPasswordLength
    THEN [isValid |-> FALSE, message |-> "too short"]
    ELSE IF Length(p) >= MaxPasswordLength
    THEN [isValid |-> FALSE, message |-> "too long"]
    ELSE [isValid |-> TRUE]

\* lines 184-188
validatePassword(p) ==
    IF Length(p) < MinPasswordLength
    THEN [isValid |-> FALSE, message |-> "too short"]
    ELSE IF Length(p) > MaxPasswordLength
    THEN [isValid |-> FALSE, message |-> "too long"]
    ELSE [isValid |-> TRUE]

\* line 224: what enables the confirm button (line 293)
isValid(p) == ~TrimIsEmpty(p) /\ validatePassword(p).isValid

\* line 255: onChange of the input
SetPassword(p) ==
    /\ dialogPassword' = p
    /\ dialogEvent' = Event("onChange", NoCall)
    /\ UNCHANGED <<fetchVars, hostVars, switchVars, codecVars, apiVars,
                   showPassword, validationError>>

\* line 261: the eye button
ToggleShowPassword ==
    /\ showPassword' = ~showPassword
    /\ dialogEvent' = Event("onClick", NoCall)
    /\ UNCHANGED <<fetchVars, hostVars, switchVars, codecVars, apiVars,
                   dialogPassword, validationError>>

\* lines 190-214: the form's submit event, whatever the button's state
handleSubmit ==
    /\ IF TrimIsEmpty(dialogPassword)
       THEN /\ validationError' = "enter a password"
            /\ dialogEvent' = Event("handleSubmit", NoCall)
            /\ UNCHANGED <<dialogPassword, showPassword>>
       ELSE LET validation == validatePassword(dialogPassword)
            IN  IF ~validation.isValid
                THEN /\ validationError' = validation.message
                     /\ dialogEvent' = Event("handleSubmit", NoCall)
                     /\ UNCHANGED <<dialogPassword, showPassword>>
                ELSE /\ dialogEvent' =
                            Event("handleSubmit", OnSubmit(dialogPassword))
                     /\ dialogPassword' = EmptyPassword
                     /\ showPassword' = FALSE
                     /\ validationError' = ""
    /\ UNCHANGED <<fetchVars, hostVars, switchVars, codecVars, apiVars>>

\* lines 216-222: the cancel button and the close button
handleClose ==
    /\ dialogPassword' = EmptyPassword
    /\ showPassword' = FALSE
    /\ validationError' = ""
    /\ dialogEvent' = Event("handleClose", OnOpenChange(FALSE))
    /\ UNCHANGED <<fetchVars, hostVars, switchVars, codecVars, apiVars>>

NextDialog ==
    \/ \E p \in TypedPasswords : SetPassword(p)
    \/ ToggleShowPassword
    \/ handleSubmit
    \/ handleClose

SpecDialog == InitCodecSpec /\ [][NextDialog]_vars

(* ------------------- vocabulary of the properties ---------------------- *)
\* the positions of a given api among the calls an invocation made
CallsTo(i, api) == {k \in 1..Len(calls[i]) : calls[i][k] = api}
\* invocation i took a step
Stepped(i) == pc'[i] # pc[i]
\* how the latest call of invocation i settled
LastSettled(i) == settled[i][Len(settled[i])]
\* no other invocation has started a refresh of the account object that
\* invocation i works on
Alone(i) ==
    \A j \in Invocations \ {i} :
        arg[j] = arg[i] => CallsTo(j, "refreshAccessToken") = {}

\* the account object invocation i was called with
Account(i) == acct[arg[i]]
\* the calls fetchData makes when it refreshes and goes on to list the models
RefreshedRun ==
    <<"loadCodeAssist", "refreshAccessToken", "loadCodeAssist",
      "fetchAvailableModels">>

TypeOK ==
    /\ pc \in [Invocations -> {"idle", "loadCodeAssist1",
                 "getCurrentAntigravityAccount", "currentAccount",
                 "refreshAccessToken",
                 "loadCodeAssist2", "fetchAvailableModels", "returned",
                 "done", "rejected"}]
    /\ \A i \in Invocations :
          /\ Len(calls[i]) <= 4
          /\ Len(settled[i]) <= Len(calls[i])
          /\ (request[i] # NoRequest) <=> (Len(settled[i]) < Len(calls[i]))
    /\ issued \in 0..NInv

(* ------------------------------ claims --------------------------------- *)
\* C1: an invocation whose first session-init call succeeded never sends a
\* refresh grant, and none of its steps changes any account.
C1_NoRefreshWhenSessionValid ==
    [][\A i \in Invocations :
          (Stepped(i) /\ settled'[i] # <<>> /\ settled'[i][1] = "resolved")
              => (CallsTo(i, "refreshAccessToken")' = {} /\ acct' = acct)]_vars

\* an invocation whose first call succeeded has run to the end
C1_Witness ==
    \E i \in Invocations :
        settled[i] # <<>> /\ settled[i][1] = "resolved" /\ pc[i] = "done"

\* C2 (as claimed): when the first session-init call has failed and the
\* account is the host's active one, the step that handles the failure, the
\* step that asks for the active account and the step that learns it is
\* this account send no request, do not reject and leave the accounts and
\* the cache alone.
C2_ActiveIdentityNoOp ==
    [][\A i \in Invocations :
          ( /\ Stepped(i)
            /\ settled'[i] # <<>>
            /\ settled'[i][1] = "rejected"
            /\ \/ /\ pc[i] \in {"loadCodeAssist1",
                                 "getCurrentAntigravityAccount"}
                  /\ arg[i] = CurrentEmail
               \/ /\ pc[i] = "currentAccount"
                  /\ arg[i] = currentAccount[i] )
              => ( /\ pc'[i] \in {"getCurrentAntigravityAccount",
                                  "currentAccount", "returned"}
                   /\ calls'[i] = calls[i]
                   /\ acct' = acct
                   /\ data' = data )]_vars

\* C3 (as claimed): two invocations for the same identity never have their
\* refresh grants in flight together.
C3_RefreshSerializedPerIdentity ==
    \A i, j \in Invocations :
        (i # j /\ arg[i] = arg[j])
            => ~(pc[i] = "refreshAccessToken" /\ pc[j] = "refreshAccessToken")

\* C4: an invocation sends at most one refresh grant, always as its second
\* call, and when the session-init call re-issued after the refresh fails
\* the invocation has rejected with that call as its last.
C4_AtMostOneRefresh ==
    \A i \in Invocations :
        /\ Cardinality(CallsTo(i, "refreshAccessToken")) <= 1
        /\ \A k \in CallsTo(i, "refreshAccessToken") : k = 2
        /\ ( /\ CallsTo(i, "refreshAccessToken") # {}
             /\ Len(settled[i]) >= 3
             /\ settled[i][3] = "rejected" )
              => pc[i] = "rejected" /\ Len(calls[i]) = 3

\* the re-issued session-init call failed after a refresh
C4_Witness ==
    \E i \in Invocations :
        /\ pc[i] = "rejected"
        /\ calls[i] = <<"loadCodeAssist", "refreshAccessToken",
                        "loadCodeAssist">>
        /\ settled[i] = <<"rejected", "resolved", "rejected">>

\* C5 (as claimed): an invocation that rejected during the refresh procedure
\* left the account as it was when the invocation began.
C5_NoMutationOnRefreshFailure ==
    \A i \in Invocations :
        ( /\ pc[i] = "rejected"
          /\ CallsTo(i, "refreshAccessToken") # {}
          /\ Len(calls[i]) \in {2, 3}
          /\ Alone(i) )
            => Account(i) = startAcct[i]

\* C5 (amended): when the invocation rejects because the grant itself failed
\* the account is as it was at the start; when it rejects because the
\* re-issued session-init call failed, only auth.access_token differs and it
\* holds the token the grant returned.
C5_MutationOnlyAfterGrant ==
    [][\A i \in Invocations :
          ( /\ pc'[i] = "rejected"
            /\ Stepped(i)
            /\ CallsTo(i, "refreshAccessToken") # {}
            /\ Len(calls[i]) \in {2, 3}
            /\ Alone(i) )
              => IF pc[i] = "refreshAccessToken"
                 THEN Account(i)' = startAcct[i]
                 ELSE Account(i)' =
                         [startAcct[i] EXCEPT !.auth.access_token =
                             refreshTokenResponse[i].access_token]]_vars

\* both failures of the refresh procedure have happened
C5_Witness ==
    /\ \E i \in Invocations :
          /\ pc[i] = "rejected" /\ Alone(i)
          /\ settled[i] = <<"rejected", "rejected">>
          /\ Account(i) = startAcct[i]
    /\ \E i \in Invocations :
          /\ pc[i] = "rejected" /\ Alone(i)
          /\ settled[i] = <<"rejected", "resolved", "rejected">>
          /\ Account(i) # startAcct[i]

\* C6: a step of fetchData never writes the host state or a backup; the step
\* in which the grant succeeds changes the access token of its own account
\* to the granted token and nothing else, and no other step changes accounts.
C6_RefreshWritesOnlyAccessToken ==
    [][\A i \in Invocations :
          Stepped(i)
              => /\ host' = host
                 /\ backup' = backup
                 /\ IF pc[i] = "refreshAccessToken"
                          /\ pc'[i] = "loadCodeAssist2"
                    THEN acct' = [acct EXCEPT ![arg[i]].auth.access_token =
                                     refreshTokenResponse'[i].access_token]
                    ELSE acct' = acct]_vars

\* a refresh has succeeded and replaced the token
C6_Witness ==
    \E i \in Invocations :
        /\ refreshTokenResponse[i] # Null
        /\ Account(i).auth.access_token = refreshTokenResponse[i].access_token
        /\ Account(i).auth.access_token # startAcct[i].auth.access_token

\* C7 (as claimed): when the final session-init call answers without a
\* project id, the invocation rejects, lists no models and caches nothing.
C7_MissingProjectFails ==
    [][\A i \in Invocations :
          ( /\ pc[i] = "loadCodeAssist2"
            /\ Stepped(i)
            /\ LastSettled(i)' = "resolved"
            /\ Member(codeAssistResponse'[i], "cloudaicompanionProject")
                   = Undefined )
              => /\ pc'[i] = "rejected"
                 /\ calls'[i] = calls[i]
                 /\ data' = data]_vars

\* C8 (as claimed): when the model listing of an invocation that refreshed
\* succeeds, the invocation completes, it has made exactly the four calls
\* of a refreshed run, the listing was requested with the token its own
\* grant returned and with the project of the re-issued session-init
\* response, and the cache holds a models list for the account's email.
C8_RefreshedRunCachesModels ==
    [][\A i \in Invocations :
          ( /\ pc[i] = "fetchAvailableModels"
            /\ Stepped(i)
            /\ CallsTo(i, "refreshAccessToken") # {}
            /\ LastSettled(i)' = "resolved" )
              => /\ pc'[i] = "done"
                 /\ calls'[i] = RefreshedRun
                 /\ request[i] = Call("fetchAvailableModels",
                        refreshTokenResponse[i].access_token,
                        Member(codeAssistResponse[i],
                               "cloudaicompanionProject"))
                 /\ \E m \in ModelLists(arg[i]) :
                       data' = [data EXCEPT ![arg[i]] = [models |-> m]]]_vars

\* C9: at most one capture/restore operation is inside the switch-lock at a
\* time, the host state is always the whole state of one identity, and once
\* a restore has committed it is the state of the identity committed last.
C9_RestoreMutuallyExclusive ==
    /\ \A p, q \in Ops : (InSwitch(p) /\ InSwitch(q)) => p = q
    /\ \A p \in Ops : InSwitch(p) => switchLock = p
    /\ host \in {RawState(e) : e \in Emails}
    /\ committed # NoAccount => host = RawState(committed)

\* restore("alice") and restore("bob") both went through, one after the
\* other's rejection or completion
C9_Witness ==
    \E p, q \in Ops :
        /\ opKind[p] = "restore" /\ opKind[q] = "restore"
        /\ opIdentity[p] # opIdentity[q]
        /\ opPc[p] = "done" /\ opPc[q] = "done"
        /\ host = RawState(committed)

\* C10: a file written by encode has the sealed (v = 2) shape, and decoding
\* it with the password it was encoded with returns exactly the raw state.
C10_SealedRoundTrip ==
    producer = "encode"
        => /\ IsSealed(envelope)
           /\ (codecPc = "read" /\ importPassword = password)
                 => decoded = Ok(rawState)

\* a non-empty raw state was sealed and got back with the same password
C10_Witness ==
    /\ producer = "encode"
    /\ codecPc = "read"
    /\ importPassword = password
    /\ Len(rawState) = MaxLen
    /\ envelope.ciphertext.body # rawState
    /\ decoded = Ok(rawState)

\* the key stream the legacy format XORs a state of n bytes with
RepeatedPassword(pw, n) == [j \in 1..n |-> pw[((j - 1) % Len(pw)) + 1]]

\* C11 (as claimed): a file without the version discriminator is decoded by
\* the legacy path and never gives IntegrityError, a legacy file read with
\* a wrong password gives a plaintext different from the exported state, and
\* a file with v = 2 is decoded by the sealed path only.
C11_LegacyWrongPasswordDiffers ==
    codecPc = "read"
        => /\ "v" \notin DOMAIN envelope
                => /\ decoded = LegacyDecode(envelope, importPassword)
                   /\ decoded # Fail("IntegrityError")
           /\ ( /\ producer = "legacy"
                /\ importPassword # password
                /\ Len(rawState) >= Len(password)
                /\ Len(rawState) >= Len(importPassword) )
                => decoded.ok /\ decoded.raw_state # rawState
           /\ "v" \in DOMAIN envelope
                => \/ decoded = Fail("IntegrityError")
                   \/ /\ decoded.ok
                      /\ Seal(DeriveKey(importPassword, envelope.salt,
                                        envelope.iter),
                              envelope.nonce, decoded.raw_state)
                            = envelope.ciphertext

\* C11 (amended): a file without the version discriminator is decoded by the
\* legacy path and never gives IntegrityError; a legacy file read with any
\* password gives a plaintext, which is the exported state exactly when the
\* two passwords repeat to the same key stream over the state's length; a
\* file with v = 2 is decoded by the sealed path only.
C11_DiscriminatorSelectsPath ==
    codecPc = "read"
        => /\ "v" \notin DOMAIN envelope
                => /\ decoded = LegacyDecode(envelope, importPassword)
                   /\ decoded # Fail("IntegrityError")
           /\ producer = "legacy"
                => /\ decoded.ok
                   /\ (decoded.raw_state = rawState)
                        <=> (RepeatedPassword(importPassword, Len(rawState))
                               = RepeatedPassword(password, Len(rawState)))
           /\ "v" \in DOMAIN envelope
                => \/ decoded = Fail("IntegrityError")
                   \/ /\ decoded.ok
                      /\ Seal(DeriveKey(importPassword, envelope.salt,
                                        envelope.iter),
                              envelope.nonce, decoded.raw_state)
                            = envelope.ciphertext

\* a legacy file was read with a wrong password and gave other bytes
C11_Witness ==
    /\ codecPc = "read"
    /\ producer = "legacy"
    /\ importPassword # password
    /\ decoded.ok
    /\ decoded.raw_state # rawState
    /\ Len(rawState) = MaxLen

\* C12 (as claimed): an invocation whose first session-init call succeeded
\* makes no second session-init call, and requests the model listing with
\* the project id of that first response.
C12_SessionInitOnce ==
    [][\A i \in Invocations :
          ( /\ Stepped(i)
            /\ settled'[i] # <<>>
            /\ settled'[i][1] = "resolved" )
              => /\ Cardinality(CallsTo(i, "loadCodeAssist")') = 1
                 /\ pc'[i] = "fetchAvailableModels"
                      => request'[i].project =
                            Member(codeAssistResponse[i],
                                   "cloudaicompanionProject")]_vars

\* C13 (as claimed): whenever an invocation sends a refresh grant, its
\* account is not the one the host is using at that moment.
C13_NoRefreshForActiveIdentity ==
    [][\A i \in Invocations :
          (Stepped(i) /\ pc'[i] = "refreshAccessToken")
              => arg[i] # CurrentEmail]_vars

\* a models list as the listing endpoint returns it for the account of e
IsModelsListOf(e, value) == value \in {[models |-> m] : m \in ModelLists(e)}

\* C14: the cache changes only in the step in which an invocation completes
\* after its final session-init call and its model listing both succeeded,
\* and then only the entry of that invocation's identity is set, to a models
\* list; a step in which an invocation returns early or rejects leaves every
\* entry as it was.
C14_CacheWrittenOnlyOnSuccess ==
    [][/\ \A i \in Invocations :
            (Stepped(i) /\ pc'[i] = "done")
                => /\ pc[i] = "fetchAvailableModels"
                   /\ Len(settled'[i]) >= 2
                   /\ settled'[i][Len(settled'[i]) - 1] = "resolved"
                   /\ LastSettled(i)' = "resolved"
                   /\ IsModelsListOf(arg[i], data'[arg[i]])
                   /\ \A e \in Emails \ {arg[i]} : data'[e] = data[e]
       /\ \A i \in Invocations :
            (Stepped(i) /\ pc'[i] \in {"returned", "rejected"})
                => data' = data
       /\ (\A i \in Invocations : pc'[i] = "done" => pc[i] = "done")
            => data' = data]_vars

\* an identity's list is in the cache after another invocation for the same
\* identity returned early or rejected
C14_Witness ==
    \E i, j \in Invocations :
        /\ arg[i] = arg[j]
        /\ pc[i] = "done"
        /\ pc[j] \in {"returned", "rejected"}
        /\ IsModelsListOf(arg[i], data[arg[i]])

\* the invocations that completed for the identity e
Completed(e) == {i \in Invocations : arg[i] = e /\ pc[i] = "done"}

\* C15: whatever the order of the responses, an identity for which an
\* invocation completed has its own models list in the cache, also when
\* invocations for other identities completed before or after it, and an
\* identity for which none completed has the entry it began with.
C15_ParallelFetchesKeepEntries ==
    \A e \in Emails :
        IF Completed(e) # {}
        THEN IsModelsListOf(e, data[e])
        ELSE data[e] = NoEntry

\* invocations for two different identities have both completed
C15_Witness ==
    \E i, j \in Invocations :
        /\ arg[i] # arg[j]
        /\ pc[i] = "done" /\ pc[j] = "done"
        /\ IsModelsListOf(arg[i], data[arg[i]])
        /\ IsModelsListOf(arg[j], data[arg[j]])

\* C16: a CloudCodeAPI call whose response body has an `error` member
\* rejects with that body, and one whose body has none resolves with the
\* body as it came; fetchData's test of the first session-init call is true
\* exactly when the value it obtained, response or caught rejection, has an
\* `error` member.
C16_ErrorMemberRejects ==
    /\ (apiPc # "start" /\ apiWire.settled = "resolved")
          => apiOutcome =
                 [settled |-> IF "error" \in DOMAIN apiWire.value
                              THEN "rejected" ELSE "resolved",
                  value |-> apiWire.value]
    /\ apiPc = "tested"
          => firstCallFailed = ("error" \in DOMAIN apiOutcome.value)

\* a session-init call answered with an error body was rejected with that
\* body, and fetchData took it as failed
C16_Witness ==
    /\ apiPc = "tested"
    /\ apiWire.settled = "resolved"
    /\ "error" \in DOMAIN apiWire.value
    /\ "cloudaicompanionProject" \in DOMAIN apiWire.value
    /\ apiOutcome = Rejected(apiWire.value)
    /\ firstCallFailed

\* the password handleSubmit is meant to let through: not blank after
\* trimming and of a length from 4 to 50
Acceptable(p) ==
    /\ p.others > 0
    /\ Length(p) >= MinPasswordLength
    /\ Length(p) <= MaxPasswordLength

\* the dialog's state is what useState began with
DialogReset ==
    /\ dialogPassword = EmptyPassword
    /\ showPassword = FALSE
    /\ validationError = ""

====
